---- MODULE Spec2Model ----
(***************************************************************************)
(* crushtool (src/crushtool.cc): the text <-> binary compiler of CRUSH     *)
(* maps.  The text is read one declaration at a time by parse_crush; the   *)
(* parser's process-wide tables and the map under construction are the     *)
(* state.  Weights and offloads are single-precision floats in the source  *)
(* and are modelled bit-exactly (24-bit mantissa, round to nearest even).  *)
(***************************************************************************)
EXTENDS Integers, Sequences, FiniteSets, TLC

\* ------------------------------------------------------------------ bounds
MaxLines == 4        \* lines of one text: device, type, bucket, item, rule step
MaxItems == 2        \* item lines in one bucket
MaxSteps == 1        \* steps in one rule
MaxDeviceId == 1     \* device numbers 0..MaxDeviceId
MaxPos == 0          \* explicit pos values 0..MaxPos
MaxTypeId == 1       \* type numbers 0..MaxTypeId
MaxBucketId == 1     \* explicit bucket ids -1..-MaxBucketId

\* ------------------------------------------------- constants of the source
CRUSH_BUCKET_UNIFORM == 1
CRUSH_BUCKET_LIST == 2
CRUSH_BUCKET_TREE == 3
CRUSH_BUCKET_STRAW == 4
ENOENT == 2
Denom == 1000        \* decimals of the text are thousandths: k stands for k/1000
Unit == 65536        \* 0x10000, one in 16.16 fixed point

\* --------------------------------------------------------------- std::map
EmptyMap == [x \in {} |-> 0]
Has(f, k) == k \in DOMAIN f
Put(f, k, v) == [x \in (DOMAIN f) \cup {k} |-> IF x = k THEN v ELSE f[x]]
\* std::map::operator[]: a key that is not there reads as 0
lookup(f, k) == IF Has(f, k) THEN f[k] ELSE 0
Range(f) == {f[x] : x \in DOMAIN f}
Max(a, b) == IF a >= b THEN a ELSE b
Min(a, b) == IF a <= b THEN a ELSE b
SetMax(S) == CHOOSE x \in S : \A y \in S : y <= x

\* ------------------------------------------------------ IEEE single floats
\* a float is (-1)^neg * m * 2^e with m = 0 or 2^23 <= m < 2^24
RECURSIVE Pow2(_)
Pow2(n) == IF n <= 0 THEN 1 ELSE 2 * Pow2(n - 1)

F32Zero == [neg |-> FALSE, m |-> 0, e |-> 0]
F32One == [neg |-> FALSE, m |-> Pow2(23), e |-> -23]

F32Pack(m, e, up) ==
  LET m1 == IF up THEN m + 1 ELSE m
  IN IF m1 = Pow2(24) THEN [neg |-> FALSE, m |-> Pow2(23), e |-> e + 1]
     ELSE [neg |-> FALSE, m |-> m1, e |-> e]

\* the float nearest to s * 2^e (0 <= s < 2^31), ties to even
RECURSIVE F32Normalize(_, _)
F32Normalize(s, e) ==
  IF s = 0 THEN F32Zero
  ELSE IF s < Pow2(23) THEN F32Normalize(2 * s, e - 1)
  ELSE IF s < Pow2(24) THEN [neg |-> FALSE, m |-> s, e |-> e]
  ELSE LET k == CHOOSE j \in 1..8 : s \div Pow2(j) < Pow2(24) /\ s \div Pow2(j) >= Pow2(23)
           q == s \div Pow2(k)
           r == s % Pow2(k)
           h == Pow2(k - 1)
       IN F32Pack(q, e + k, r > h \/ (r = h /\ q % 2 = 1))

\* binary long division of r/d below the integer part m, to 24 bits
RECURSIVE F32Div(_, _, _, _)
F32Div(m, r, d, e) ==
  IF m >= Pow2(23) THEN F32Pack(m, e, 2 * r > d \/ (2 * r = d /\ m % 2 = 1))
  ELSE F32Div(2 * m + (IF 2 * r >= d THEN 1 ELSE 0), (2 * r) % d, d, e - 1)

\* strtof of the decimal n/d, n >= 0
strtof(n, d) ==
  IF n = 0 THEN F32Zero
  ELSE IF n \div d >= Pow2(23) THEN F32Normalize(n \div d, 0)
  ELSE F32Div(n \div d, n % d, d, 0)

float_node(lit) == strtof(lit, Denom)

\* a + b in float, both non-negative
F32Add(a, b) ==
  IF a.m = 0 THEN b ELSE IF b.m = 0 THEN a
  ELSE LET hi == IF a.e >= b.e THEN a ELSE b
           lo == IF a.e >= b.e THEN b ELSE a
           d  == hi.e - lo.e
       IN IF d <= 6 THEN F32Normalize(hi.m * Pow2(d) + lo.m, lo.e)
          ELSE IF d >= 27 THEN hi
          ELSE LET sh == lo.m \div Pow2(d - 3)
                   st == IF lo.m % Pow2(d - 3) # 0 THEN 1 ELSE 0
               IN F32Normalize(hi.m * 16 + 2 * sh + st, hi.e - 4)

\* (float)(1.0 - f), f >= 0: the double difference is exact, then rounded
F32OneMinus(f) ==
  IF f.m = 0 THEN F32One
  ELSE IF f.e >= -23
       THEN [F32Normalize(f.m - Pow2(-f.e), f.e) EXCEPT !.neg = (f.m # Pow2(-f.e))]
  ELSE IF f.e >= -30 THEN F32Normalize(Pow2(-f.e) - f.m, f.e)
  ELSE LET sh == f.m \div Pow2(-f.e - 28)
           st == IF f.m % Pow2(-f.e - 28) # 0 THEN 1 ELSE 0
       IN F32Normalize(2 * (Pow2(28) - sh - st) + st, -29)

F32Negative(f) == f.neg /\ f.m # 0
F32GreaterThanOne(f) == ~f.neg /\ f.m # 0 /\ (f.e > -23 \/ (f.e = -23 /\ f.m > Pow2(23)))

\* a cast that rounds to nearest instead
ToFixedNearest(f) ==
  LET e == f.e + 16
  IN IF f.m = 0 THEN 0
     ELSE IF e >= 0 THEN f.m * Pow2(e)
     ELSE IF e <= -25 THEN 0
     ELSE (f.m + Pow2(-e - 1)) \div Pow2(-e)

\* (unsigned)(f * 0x10000), f >= 0: the product is exact, the cast truncates
ToFixed(f) ==
  LET e == f.e + 16
  IN IF f.m = 0 THEN 0
     ELSE IF e >= 0 THEN f.m * Pow2(e)
     ELSE IF e <= -24 THEN 0
     ELSE f.m \div Pow2(-e)

\* sprintf("%.3f", (float)i / (float)0x10000) read back as thousandths, 0 <= i < 2^24
print_fixedpoint(i) ==
  LET n == i * 125
      q == n \div 8192
      r == n % 8192
  IN IF r > 4096 \/ (r = 4096 /\ q % 2 = 1) THEN q + 1 ELSE q

\* ------------------------------------------ CrushWrapper (crush/CrushWrapper.h)
\* The map of section 3: max_devices, the offload vector, the bucket table
\* indexed by -1-id, the rule table indexed by rule id, the name tables.
create ==
  [max_devices |-> 0, offload |-> EmptyMap, buckets |-> EmptyMap, rules |-> <<>>,
   item_names |-> EmptyMap, type_names |-> EmptyMap, rule_names |-> EmptyMap]

set_item_name(c, id, name) == [c EXCEPT !.item_names = Put(@, id, name)]
set_type_name(c, id, name) == [c EXCEPT !.type_names = Put(@, id, name)]
set_rule_name(c, ruleno, name) == [c EXCEPT !.rule_names = Put(@, ruleno, name)]
set_max_devices(c, n) == [c EXCEPT !.max_devices = n]
set_offload(c, i, v) == [c EXCEPT !.offload = Put(@, i, v)]

\* a bucket table that replaces the bucket stored under an id: C8 does not hold for it
add_bucket_replace(c, id, alg, type, size, items, weights) ==
  [c EXCEPT !.buckets =
     Put(@, id, [alg |-> alg, type |-> type, size |-> size,
                 items |-> items, weights |-> weights])]

\* the bucket is stored at index -1-id of the bucket table; an id declared twice
\* is the error Duplicate(id) of section 7 and the table keeps the first bucket
add_bucket(c, id, alg, type, size, items, weights) ==
  IF Has(c.buckets, id) THEN c
  ELSE [c EXCEPT !.buckets =
          Put(@, id, [alg |-> alg, type |-> type, size |-> size,
                      items |-> items, weights |-> weights])]

\* add_rule(len, pool, type, minsize, maxsize, -1): the next free rule number
next_ruleno(c) == Len(c.rules)
add_rule(c, len, pool, type, minsize, maxsize) ==
  [c EXCEPT !.rules =
     Append(@, [len |-> len, pool |-> pool, type |-> type,
                min_size |-> minsize, max_size |-> maxsize,
                steps |-> [j \in 1..len |-> [op |-> "noop", arg1 |-> 0, arg2 |-> 0]]])]
set_rule_step(c, ruleno, step, op, arg1, arg2) ==
  [c EXCEPT !.rules[ruleno + 1].steps[step + 1] =
     [op |-> op, arg1 |-> arg1, arg2 |-> arg2]]

\* finalize: max_devices = max(existing, ids+1) over the device children of the
\* buckets; the offload vector covers 0..max_devices-1, 0 where nothing was set
device_children(c) ==
  UNION {{c.buckets[b].items[p] : p \in DOMAIN c.buckets[b].items} \cap (0..MaxDeviceId + 8) :
         b \in DOMAIN c.buckets}
finalize(c) ==
  LET md == Max(c.max_devices,
                IF device_children(c) = {} THEN 0 ELSE SetMax(device_children(c)) + 1)
  IN [c EXCEPT !.max_devices = md,
               !.offload = [i \in 0..md - 1 |->
                              IF Has(c.offload, i) THEN c.offload[i] ELSE 0]]

get_device_offload(c, i) == IF Has(c.offload, i) THEN c.offload[i] ELSE 0
get_max_buckets(c) ==
  IF DOMAIN c.buckets = {} THEN 0 ELSE SetMax({-id : id \in DOMAIN c.buckets})
bucket_exists(c, id) == Has(c.buckets, id)

\* ------------------------------------------------------- the parser's tables
\* item_id, id_item, item_weight, device_offload, type_id, rule_id are the
\* globals of crushtool.cc; crush is the map; err is the message of the exit(1)
\* that ended the run, "" while it runs.
\* a parser that does not run find_used_bucket_ids first; C18 does not hold for it
Globals0_unseeded(used) ==
  [item_id |-> EmptyMap, id_item |-> EmptyMap, item_weight |-> EmptyMap,
   device_offload |-> EmptyMap, type_id |-> EmptyMap, rule_id |-> EmptyMap,
   crush |-> create, err |-> ""]

Globals0(used) ==
  [item_id |-> EmptyMap, id_item |-> [id \in used |-> ""], item_weight |-> EmptyMap,
   device_offload |-> EmptyMap, type_id |-> EmptyMap, rule_id |-> EmptyMap,
   crush |-> create, err |-> ""]

Exit(s, msg) == [s EXCEPT !.err = msg]

\* a device line  [k, id, name, tag, val]: "device <id> <name> [offload v|load v|down]"
device_offload_of(d) ==
  IF d.tag = "offload" THEN float_node(d.val)
  ELSE IF d.tag = "load" THEN F32OneMinus(float_node(d.val))
  ELSE F32One

offload_illegal(offload) == F32Negative(offload) \/ F32GreaterThanOne(offload)

device_name_defined(s, name) == Has(s.item_id, name)

\* a parse_device that sets max_devices from every device line; C21 does not hold for it
new_max_devices_always(c, id) == set_max_devices(c, id + 1)
new_max_devices(c, id) == IF id >= c.max_devices THEN set_max_devices(c, id + 1) ELSE c

parse_device(s, d) ==
  LET c1 == set_item_name(s.crush, d.id, d.name)
  IN IF device_name_defined(s, d.name)
     THEN Exit([s EXCEPT !.crush = c1], "item defined twice")
     ELSE LET s1 == [s EXCEPT !.crush = c1,
                              !.item_id = Put(@, d.name, d.id),
                              !.id_item = Put(@, d.id, d.name)]
              offload == device_offload_of(d)
          IN IF d.tag # "" /\ offload_illegal(offload)
             THEN Exit(s1, "illegal device offload")
             ELSE [s1 EXCEPT
                     !.device_offload =
                        IF d.tag # "" THEN Put(@, d.id, ToFixed(offload)) ELSE @,
                     !.crush = new_max_devices(@, d.id)]

\* a type line  [k, id, name]: "type <id> <name>"
parse_bucket_type(s, d) ==
  [s EXCEPT !.type_id = Put(@, d.name, d.id),
            !.crush = set_type_name(@, d.id, d.name)]

\* a bucket  [k, tname, name, id, alg, items]: "<tname> <name> { [id <id>] alg <alg>
\* item <name> [weight <w>] [pos <p>] ... }"; id = 0 without an id line, w = NoLit
\* without a weight, pos = -1 without a pos
NoLit == -1

alg_of(a) ==
  IF a = "uniform" THEN CRUSH_BUCKET_UNIFORM
  ELSE IF a = "list" THEN CRUSH_BUCKET_LIST
  ELSE IF a = "tree" THEN CRUSH_BUCKET_TREE
  ELSE IF a = "straw" THEN CRUSH_BUCKET_STRAW
  ELSE 0

\* a first loop that does not look for an occupied pos; C19 does not hold for it
RECURSIVE used_items_unchecked(_, _, _)
used_items_unchecked(items, q, used) ==
  IF q > Len(items) THEN [err |-> "", used |-> used]
  ELSE IF items[q].pos = -1 THEN used_items_unchecked(items, q + 1, used)
  ELSE used_items_unchecked(items, q + 1, used \cup {items[q].pos})

\* first loop: the explicit pos values, or "occupied"
RECURSIVE used_items_of(_, _, _)
used_items_of(items, q, used) ==
  IF q > Len(items) THEN [err |-> "", used |-> used]
  ELSE IF items[q].pos = -1 THEN used_items_of(items, q + 1, used)
  ELSE IF items[q].pos \in used THEN [err |-> "explicit pos is occupied", used |-> used]
  ELSE used_items_of(items, q + 1, used \cup {items[q].pos})

bucket_size(n, used) == IF used # {} THEN Max(n, SetMax(used)) ELSE n

\* a parser that never looks the item name up: C6 does not hold for it
item_defined_unchecked(s, iname) == TRUE

item_defined(s, iname) == Has(s.item_id, iname)

RECURSIVE next_free_pos(_, _)
next_free_pos(used, curpos) ==
  IF curpos \in used THEN next_free_pos(used, curpos + 1) ELSE curpos

item_fixed_weight(weight) == ToFixed(weight)

\* second loop: acc = [err, items, weights, curpos, bucketweight]
RECURSIVE fill_items(_, _, _, _, _, _)
fill_items(s, lines, q, used, size, acc) ==
  IF q > Len(lines) THEN acc
  ELSE LET l == lines[q]
       IN IF ~item_defined(s, l.name) THEN [acc EXCEPT !.err = "item is not defined"]
          ELSE LET itemid == lookup(s.item_id, l.name)
                   weight == IF l.w # NoLit THEN float_node(l.w)
                             ELSE IF Has(s.item_weight, itemid) THEN s.item_weight[itemid]
                             ELSE F32One
                   auto == next_free_pos(used, acc.curpos)
                   pos == IF l.pos < 0 THEN auto ELSE l.pos
               IN IF l.pos >= size THEN [acc EXCEPT !.err = "pos >= size"]
                  ELSE fill_items(s, lines, q + 1, used, size,
                         [err |-> "",
                          items |-> [acc.items EXCEPT ![pos] = itemid],
                          weights |-> [acc.weights EXCEPT ![pos] = item_fixed_weight(weight)],
                          curpos |-> IF l.pos < 0 THEN auto + 1 ELSE acc.curpos,
                          bucketweight |-> F32Add(acc.bucketweight, weight)])

RECURSIVE assign_id(_, _)
assign_id(id_item_, id) == IF Has(id_item_, id) THEN assign_id(id_item_, id - 1) ELSE id

bucket_id(s, d) == IF d.id = 0 THEN assign_id(s.id_item, -1) ELSE d.id

parse_bucket(s, d) ==
  IF ~Has(s.type_id, d.tname) THEN Exit(s, "bucket type is not defined")
  ELSE IF Has(s.item_id, d.name) THEN Exit(s, "bucket or device is already defined")
  ELSE IF alg_of(d.alg) = 0 THEN Exit(s, "unknown bucket alg")
  ELSE LET first == used_items_of(d.items, 1, {})
           size == bucket_size(Len(d.items), first.used)
           acc == fill_items(s, d.items, 1, first.used, size,
                    [err |-> "", items |-> [p \in 0..size - 1 |-> 0],
                     weights |-> [p \in 0..size - 1 |-> 0],
                     curpos |-> 0, bucketweight |-> F32Zero])
           id == bucket_id(s, d)
       IN IF first.err # "" THEN Exit(s, first.err)
          ELSE IF acc.err # "" THEN Exit(s, acc.err)
          ELSE [s EXCEPT
                  !.id_item = Put(@, id, d.name),
                  !.item_id = Put(@, d.name, id),
                  !.item_weight = Put(@, id, acc.bucketweight),
                  !.crush = set_item_name(
                              add_bucket(@, id, alg_of(d.alg), lookup(s.type_id, d.tname),
                                         size, acc.items, acc.weights),
                              id, d.name)]

\* a rule  [k, name, pool, type, min_size, max_size, steps]; name = "" for "rule {";
\* a step is [op, item], [op, n, type] or [op] with op in take, choose_firstn,
\* choose_indep, chooseleaf_firstn, chooseleaf_indep, emit
rule_name_defined(s, rname) == rname # "" /\ Has(s.rule_id, rname)

RECURSIVE parse_steps(_, _, _, _)
parse_steps(s, ruleno, steps, j) ==
  IF j > Len(steps) THEN s
  ELSE LET st == steps[j]
       IN IF st.op = "take"
          THEN IF ~Has(s.item_id, st.item) THEN Exit(s, "in rule: item not defined")
               ELSE parse_steps(
                      [s EXCEPT !.crush = set_rule_step(@, ruleno, j - 1, "take",
                                                        lookup(s.item_id, st.item), 0)],
                      ruleno, steps, j + 1)
          ELSE IF st.op = "emit"
          THEN parse_steps([s EXCEPT !.crush = set_rule_step(@, ruleno, j - 1, "emit", 0, 0)],
                           ruleno, steps, j + 1)
          ELSE IF ~Has(s.type_id, st.type) THEN Exit(s, "in rule: type not defined")
               ELSE parse_steps(
                      [s EXCEPT !.crush = set_rule_step(@, ruleno, j - 1, st.op, st.n,
                                                        lookup(s.type_id, st.type))],
                      ruleno, steps, j + 1)

parse_rule(s, d) ==
  IF rule_name_defined(s, d.name) THEN Exit(s, "rule name already defined")
  ELSE LET ruleno == next_ruleno(s.crush)
           c1 == add_rule(s.crush, Len(d.steps), d.pool, d.type, d.min_size, d.max_size)
           s1 == IF d.name # ""
                 THEN [s EXCEPT !.crush = set_rule_name(c1, ruleno, d.name),
                                !.rule_id = Put(@, d.name, ruleno)]
                 ELSE [s EXCEPT !.crush = c1]
       IN parse_steps(s1, ruleno, d.steps, 1)

\* find_used_bucket_ids: the ids of the buckets whose first line is an id line
find_used_bucket_ids(text) ==
  {text[i].id : i \in {j \in 1..Len(text) : text[j].k = "bucket" /\ text[j].id # 0}}

parse_decl(s, d) ==
  IF d.k = "device" THEN parse_device(s, d)
  ELSE IF d.k = "type" THEN parse_bucket_type(s, d)
  ELSE IF d.k = "bucket" THEN parse_bucket(s, d)
  ELSE parse_rule(s, d)

\* the tail of parse_crush: finalize, then the offloads the text gave
RECURSIVE set_offloads(_, _, _)
set_offloads(c, device_offload_, i) ==
  IF i >= c.max_devices THEN c
  ELSE set_offloads(IF Has(device_offload_, i) THEN set_offload(c, i, device_offload_[i]) ELSE c,
                    device_offload_, i + 1)

parse_crush_end(s) == [s EXCEPT !.crush = set_offloads(finalize(@), s.device_offload, 0)]

RECURSIVE parse_decls(_, _, _)
parse_decls(s, text, i) ==
  IF s.err # "" \/ i > Len(text) THEN s
  ELSE parse_decls(parse_decl(s, text[i]), text, i + 1)

\* parse_crush on a whole text, then main's second finalize
parse_crush(text) ==
  LET s == parse_decls(Globals0(find_used_bucket_ids(text)), text, 1)
  IN IF s.err # "" THEN s ELSE LET e == parse_crush_end(s) IN [e EXCEPT !.crush = finalize(@)]

\* ------------------------------------------------------------ decompile_crush
get_item_name(c, t) == IF Has(c.item_names, t) THEN c.item_names[t] ELSE ""
get_type_name(c, t) == IF Has(c.type_names, t) THEN c.type_names[t] ELSE ""
get_rule_name(c, t) == IF Has(c.rule_names, t) THEN c.rule_names[t] ELSE ""

print_type_name(c, t) ==
  IF Has(c.type_names, t) THEN c.type_names[t]
  ELSE IF t = 0 THEN "device"
  ELSE "type" \o ToString(t)

print_item_name(c, t) ==
  IF Has(c.item_names, t) THEN c.item_names[t]
  ELSE IF t >= 0 THEN "device" \o ToString(t)
  ELSE "bucket" \o ToString(-1 - t)

crush_bucket_alg_name(alg) ==
  IF alg = CRUSH_BUCKET_UNIFORM THEN "uniform"
  ELSE IF alg = CRUSH_BUCKET_LIST THEN "list"
  ELSE IF alg = CRUSH_BUCKET_TREE THEN "tree"
  ELSE IF alg = CRUSH_BUCKET_STRAW THEN "straw"
  ELSE "unknown"

\* C's integer division truncates toward zero
CDiv(a, b) == IF a >= 0 THEN a \div b ELSE -((-a) \div b)

decompile_device(c, i) ==
  [k |-> "device", id |-> i, name |-> print_item_name(c, i),
   tag |-> IF get_device_offload(c, i) # 0 THEN "offload" ELSE "",
   val |-> IF get_device_offload(c, i) # 0 THEN print_fixedpoint(get_device_offload(c, i))
           ELSE 0]

RECURSIVE decompile_devices(_, _)
decompile_devices(c, i) ==
  IF i >= c.max_devices THEN <<>>
  ELSE <<decompile_device(c, i)>> \o decompile_devices(c, i + 1)

\* for (i = 0; n; i++): the named types by increasing id, "type 0 device" when
\* type 0 has no name
RECURSIVE decompile_types(_, _, _)
decompile_types(c, i, n) ==
  IF n = 0 THEN <<>>
  ELSE IF ~Has(c.type_names, i)
       THEN (IF i = 0 THEN <<[k |-> "type", id |-> 0, name |-> "device"]>> ELSE <<>>)
            \o decompile_types(c, i + 1, n)
  ELSE <<[k |-> "type", id |-> i, name |-> c.type_names[i]]>>
       \o decompile_types(c, i + 1, n - 1)

item_pos(alg, j) == IF alg = CRUSH_BUCKET_TREE THEN CDiv(j - 1, 2) ELSE j

RECURSIVE decompile_items(_, _, _, _)
decompile_items(c, b, j, dopos) ==
  IF j >= b.size THEN <<>>
  ELSE IF b.weights[j] = 0 THEN decompile_items(c, b, j + 1, TRUE)
  ELSE <<[name |-> print_item_name(c, b.items[j]),
          w |-> print_fixedpoint(b.weights[j]),
          pos |-> IF dopos THEN item_pos(b.alg, j) ELSE -1]>>
       \o decompile_items(c, b, j + 1, dopos)

decompile_bucket(c, i) ==
  LET b == c.buckets[i]
  IN [k |-> "bucket", tname |-> print_type_name(c, b.type), name |-> print_item_name(c, i),
      id |-> i, alg |-> crush_bucket_alg_name(b.alg),
      items |-> decompile_items(c, b, 0,
                  b.alg = CRUSH_BUCKET_UNIFORM \/ b.alg = CRUSH_BUCKET_TREE)]

RECURSIVE decompile_buckets(_, _)
decompile_buckets(c, i) ==
  IF i <= -1 - get_max_buckets(c) THEN <<>>
  ELSE (IF bucket_exists(c, i) THEN <<decompile_bucket(c, i)>> ELSE <<>>)
       \o decompile_buckets(c, i - 1)

decompile_step(c, st) ==
  IF st.op = "take" THEN [op |-> "take", item |-> print_item_name(c, st.arg1)]
  ELSE IF st.op = "emit" THEN [op |-> "emit"]
  ELSE IF st.op = "noop" THEN [op |-> "noop"]
  ELSE [op |-> st.op, n |-> st.arg1, type |-> print_type_name(c, st.arg2)]

decompile_rule(c, i) ==
  LET ru == c.rules[i + 1]
  IN [k |-> "rule", name |-> get_rule_name(c, i), pool |-> ru.pool, type |-> ru.type,
      min_size |-> ru.min_size, max_size |-> ru.max_size,
      steps |-> [j \in 1..ru.len |-> decompile_step(c, ru.steps[j])]]

decompile_crush(c) ==
  decompile_devices(c, 0)
  \o decompile_types(c, 0, Cardinality(DOMAIN c.type_names))
  \o decompile_buckets(c, -1)
  \o [i \in 1..Len(c.rules) |-> decompile_rule(c, i - 1)]

\* the binary layout of section 4.5
encode(c) ==
  <<get_max_buckets(c), Len(c.rules), c.max_devices,
    [b \in 1..get_max_buckets(c) |->
       IF bucket_exists(c, -b) THEN <<1, c.buckets[-b]>> ELSE <<0>>],
    c.rules, c.offload, c.type_names, c.item_names, c.rule_names>>

\* ------------------------------------------------------------------ the run
VARIABLES
  args,            \* main: which of -c, -d, -o were given
  pc,              \* "start", "parse" (inside parse_crush's loop), "exit"
  r,               \* main's r, the result of compile_crush_file
  exit_status,     \* the process's exit status once pc = "exit"
  outfile,         \* <<>> or <<contents>>: what was written to the -o file
  stdout,          \* <<>> or <<text>>: the decompiled text written to cout
  text,            \* the declarations parse_crush has read so far
  used,            \* the bucket ids find_used_bucket_ids saw in the whole text
  item_id, id_item, item_weight, device_offload, type_id, rule_id,
  crush,           \* the CrushWrapper of main
  err,             \* the message of the exit(1) inside the parser, "" if none
  cerr,            \* the messages written to cerr, in order
  pool,            \* kernel/msgpool.c: a ceph_msg_pool and the threads that use it
  sel,             \* the selector: one map_pg call in progress
  clients          \* kernel/super.c: ceph_num_clients, the workqueues, the mounting threads

vars == <<args, pc, r, exit_status, outfile, stdout, text, used,
          item_id, id_item, item_weight, device_offload, type_id, rule_id, crush, err, cerr,
          pool, sel, clients>>
tool_vars == <<args, pc, r, exit_status, outfile, stdout, text, used,
               item_id, id_item, item_weight, device_offload, type_id, rule_id, crush, err,
               cerr>>
flow == <<args, pc, r, exit_status, outfile, stdout, text, used, cerr>>

\* What a message on cerr carries: the file name and line it is qualified with
\* ("" and 0 when the statement prints neither) and its text.
infn == "map.txt"
cerr_message(msg) == [file |-> "", line |-> 0, msg |-> msg]
cerr_parse_error(line) == [file |-> infn, line |-> line, msg |-> "error: parse error"]
cerr_not_found == [file |-> infn, line |-> 0, msg |-> "input file not found"]

Cur ==
  [item_id |-> item_id, id_item |-> id_item, item_weight |-> item_weight,
   device_offload |-> device_offload, type_id |-> type_id, rule_id |-> rule_id,
   crush |-> crush, err |-> err]

Commit(s) ==
  /\ item_id' = s.item_id
  /\ id_item' = s.id_item
  /\ item_weight' = s.item_weight
  /\ device_offload' = s.device_offload
  /\ type_id' = s.type_id
  /\ rule_id' = s.rule_id
  /\ crush' = s.crush
  /\ err' = s.err

\* -------------------------------------------------- the texts that are tried
\* Names are taken in a fixed order: a declaration or reference uses a name that
\* is already declared or the first one that is not.
ItemNameSeq == <<"a", "b", "c", "d", "e", "f", "g">>
TypeNameSeq == <<"host", "rack", "row", "room", "dc", "root", "pod">>
RuleNameSeq == <<"data", "meta", "rbd", "cas", "log", "tmp", "aux">>
FirstFree(seq, taken) == seq[CHOOSE i \in 1..Len(seq) : seq[i] \notin taken
                                    /\ \A j \in 1..i - 1 : seq[j] \in taken]
ItemNameChoices == DOMAIN item_id \cup {FirstFree(ItemNameSeq, DOMAIN item_id)}
TypeNameChoices == DOMAIN type_id \cup {FirstFree(TypeNameSeq, DOMAIN type_id)}
RuleNameChoices == DOMAIN rule_id \cup {FirstFree(RuleNameSeq, DOMAIN rule_id)}

DeviceTags == {<<"", 0>>, <<"down", 0>>, <<"offload", 300>>, <<"load", 1500>>}
WeightLits == {300}
AlgNames == {"uniform", "tree", "straw"}
ExplicitIds == {-i : i \in 1..MaxBucketId}

\* A declaration that the parser rejects at its first check is tried once, with
\* the rest of the declaration at its plainest: nothing after the check is read.
FreshItem == FirstFree(ItemNameSeq, DOMAIN item_id)
FreshType == FirstFree(TypeNameSeq, DOMAIN type_id)
FreshRule == FirstFree(RuleNameSeq, DOMAIN rule_id)

Device(i, n, tag, val) == [k |-> "device", id |-> i, name |-> n, tag |-> tag, val |-> val]
DeviceLines ==
  {Device(i, FreshItem, tv[1], tv[2]) : i \in 0..MaxDeviceId, tv \in DeviceTags}
  \cup {Device(0, n, "", 0) : n \in DOMAIN item_id}

TypeLines ==
  {[k |-> "type", id |-> i, name |-> n] : i \in 0..MaxTypeId, n \in TypeNameChoices}

ItemLines ==
  {[name |-> n, w |-> w, pos |-> p] :
     n \in ItemNameChoices, w \in WeightLits \cup {NoLit}, p \in -1..MaxPos}

\* the lines a declaration takes (its item lines or steps; one if it has none),
\* and the lines the text has left
Lines(d) ==
  IF d.k = "bucket" THEN Max(1, Len(d.items))
  ELSE IF d.k = "rule" THEN Len(d.steps)
  ELSE 1
RECURSIVE TextLines(_)
TextLines(tx) == IF tx = <<>> THEN 0 ELSE Lines(Head(tx)) + TextLines(Tail(tx))
LinesLeft == MaxLines - TextLines(text)

RECURSIVE SeqsUpTo(_, _)
SeqsUpTo(S, n) ==
  IF n = 0 THEN {<<>>}
  ELSE LET shorter == SeqsUpTo(S, n - 1)
       IN shorter \cup {Append(q, x) : q \in {q2 \in shorter : Len(q2) = n - 1}, x \in S}

Bucket(tn, n, i, a, its) ==
  [k |-> "bucket", tname |-> tn, name |-> n, id |-> i, alg |-> a, items |-> its]
Buckets ==
  {Bucket(tn, FreshItem, i, a, its) :
     tn \in DOMAIN type_id, i \in {0} \cup used, a \in AlgNames,
     its \in SeqsUpTo(ItemLines, Min(MaxItems, LinesLeft))}
  \cup {Bucket(FreshType, FreshItem, 0, "straw", <<>>)}
  \cup {Bucket(tn, n, 0, "straw", <<>>) : tn \in DOMAIN type_id, n \in DOMAIN item_id}
  \cup {Bucket(tn, FreshItem, 0, "hash", <<>>) : tn \in DOMAIN type_id}

StepLines ==
  {[op |-> "take", item |-> n] : n \in ItemNameChoices}
  \cup {[op |-> o, n |-> 0, type |-> tn] :
          o \in {"choose_firstn", "chooseleaf_indep"}, tn \in TypeNameChoices}
  \cup {[op |-> "emit"]}

Rule(n, sts) ==
  [k |-> "rule", name |-> n, pool |-> 0, type |-> "replicated", min_size |-> 1,
   max_size |-> 10, steps |-> sts]
Rules ==
  {Rule(n, sts) : n \in {FreshRule, ""},
                  sts \in SeqsUpTo(StepLines, Min(MaxSteps, LinesLeft)) \ {<<>>}}
  \cup {Rule(n, <<[op |-> "emit"]>>) : n \in DOMAIN rule_id}

\* crushtool has no message pool
NoPool == [lock |-> 0, num |-> 0, min |-> 0, msgs |-> <<>>, alloc |-> 0, wait |-> {},
           th |-> <<>>]
\* ... and runs no map_pg
NoSel == [done |-> TRUE]
\* ... and mounts nothing
NoClients == [num |-> 0, wq |-> "down", misordered |-> FALSE, th |-> <<>>]

\* ------------------------------------------------------------------ actions
Init ==
  /\ args \in [c : BOOLEAN, d : BOOLEAN, o : BOOLEAN]
  /\ pc = "start"
  /\ r = 0
  /\ exit_status = 0
  /\ outfile = <<>>
  /\ stdout = <<>>
  /\ text = <<>>
  /\ used = {}
  /\ item_id = EmptyMap
  /\ id_item = EmptyMap
  /\ item_weight = EmptyMap
  /\ device_offload = EmptyMap
  /\ type_id = EmptyMap
  /\ rule_id = EmptyMap
  /\ crush = create
  /\ err = ""
  /\ cerr = <<>>
  /\ pool = NoPool
  /\ sel = NoSel
  /\ clients = NoClients

ExitWith(status) == pc' = "exit" /\ exit_status' = status

\* main: usage() unless exactly one of -c and -d is given
Usage ==
  /\ pc = "start"
  /\ (args.c /\ args.d) \/ (~args.c /\ ~args.d)
  /\ ExitWith(1)
  /\ UNCHANGED <<args, r, outfile, stdout, text, used,
                 item_id, id_item, item_weight, device_offload, type_id, rule_id, crush, err, cerr,
                 pool, sel, clients>>

\* main, -d: read and decode the binary, decompile it to the -o file or to cout
DecodedMaps == {finalize(create), finalize(set_item_name(set_max_devices(create, 1), 0, "a"))}
Decompile ==
  /\ pc = "start"
  /\ args.d /\ ~args.c
  /\ \E read_ok \in BOOLEAN, open_ok \in BOOLEAN, m \in DecodedMaps :
       IF ~read_ok
       THEN /\ ExitWith(1)
            /\ cerr' = Append(cerr, cerr_message("error reading"))
            /\ UNCHANGED <<crush, outfile, stdout>>
       ELSE /\ crush' = m
            /\ IF args.o
               THEN IF open_ok
                    THEN /\ outfile' = <<decompile_crush(m)>>
                         /\ ExitWith(0)
                         /\ UNCHANGED <<stdout, cerr>>
                    ELSE /\ ExitWith(1)
                         /\ cerr' = Append(cerr, cerr_message("error writing"))
                         /\ UNCHANGED <<outfile, stdout>>
               ELSE /\ stdout' = <<decompile_crush(m)>>
                    /\ ExitWith(0)
                    /\ UNCHANGED <<outfile, cerr>>
  /\ UNCHANGED <<args, r, text, used,
                 item_id, id_item, item_weight, device_offload, type_id, rule_id, err, pool,
                 sel, clients>>

\* a main that compiles whenever -c is given; C16 does not hold for it
CompilingWithD == pc = "start" /\ args.c
Compiling == pc = "start" /\ args.c /\ ~args.d

\* main once compile_crush_file has returned rv, left the map c and written out
\* to cerr: finalize, exit(1) if r < 0, else encode and write the -o file if
\* there is one
MainTail(rv, c, out) ==
  /\ r' = rv
  /\ UNCHANGED <<pool, sel, clients>>
  /\ crush' = finalize(c)
  /\ IF rv < 0 THEN ExitWith(1) /\ cerr' = out /\ UNCHANGED outfile
     ELSE IF args.o
     THEN \E write_ok \in BOOLEAN :
            IF write_ok
            THEN outfile' = <<encode(finalize(c))>> /\ ExitWith(0) /\ cerr' = out
            ELSE /\ ExitWith(1)
                 /\ cerr' = Append(out, cerr_message("error writing"))
                 /\ UNCHANGED outfile
     ELSE ExitWith(0) /\ cerr' = out /\ UNCHANGED outfile

\* compile_crush_file: the input file cannot be opened, return -ENOENT
InputMissing ==
  /\ Compiling
  /\ MainTail(-ENOENT, crush, Append(cerr, cerr_not_found))
  /\ UNCHANGED <<args, stdout, text, used,
                 item_id, id_item, item_weight, device_offload, type_id, rule_id, err>>

\* compile_crush_file: the grammar does not match the whole text, return 1
ParseError ==
  /\ Compiling
  /\ \E line \in 1..MaxLines : MainTail(1, crush, Append(cerr, cerr_parse_error(line)))
  /\ UNCHANGED <<args, stdout, text, used,
                 item_id, id_item, item_weight, device_offload, type_id, rule_id, err>>

\* compile_crush_file: the text parses; parse_crush starts with find_used_bucket_ids
BeginParse ==
  /\ Compiling
  /\ \E ids \in SUBSET ExplicitIds :
       /\ used' = ids
       /\ Commit(Globals0(ids))
  /\ pc' = "parse"
  /\ UNCHANGED <<args, r, exit_status, outfile, stdout, text, cerr, pool, sel, clients>>

\* one turn of parse_crush's loop: the next declaration d of the text
Parse(s, d) ==
  /\ Commit(s)
  /\ text' = Append(text, d)
  /\ IF s.err # ""
     THEN ExitWith(1) /\ cerr' = Append(cerr, cerr_message(s.err))
     ELSE UNCHANGED <<pc, exit_status, cerr>>
  /\ UNCHANGED <<args, r, outfile, stdout, used, pool, sel, clients>>

MoreText == pc = "parse" /\ LinesLeft > 0

ParseDevice == MoreText /\ \E d \in DeviceLines : Parse(parse_device(Cur, d), d)
ParseBucketType == MoreText /\ \E d \in TypeLines : Parse(parse_bucket_type(Cur, d), d)
ParseBucket == MoreText /\ \E d \in Buckets : Parse(parse_bucket(Cur, d), d)
ParseRule == MoreText /\ \E d \in Rules : Parse(parse_rule(Cur, d), d)

\* the end of the text: every id find_used_bucket_ids saw has had its bucket;
\* parse_crush finalizes and sets the offloads, compile_crush_file returns 0
EndOfText ==
  /\ pc = "parse"
  /\ used = find_used_bucket_ids(text)
  /\ MainTail(0, parse_crush_end(Cur).crush, cerr)
  /\ UNCHANGED <<args, stdout, text, used,
                 item_id, id_item, item_weight, device_offload, type_id, rule_id, err>>

Next ==
  \/ Usage
  \/ Decompile
  \/ InputMissing
  \/ ParseError
  \/ BeginParse
  \/ ParseDevice
  \/ ParseBucketType
  \/ ParseBucket
  \/ ParseRule
  \/ EndOfText

Spec == Init /\ [][Next]_vars


\* ------------------------------------------- one declaration, every decimal
\* The text "type 1 host / device 0 a" has been read; the next declaration is a
\* device with offload or load k/1000 or a bucket with one item of weight k/1000,
\* for every k up to LitRange.
LitRange == 4 * Denom
Prelude == <<[k |-> "type", id |-> 1, name |-> "host"], Device(0, "a", "", 0)>>
AfterPrelude == parse_decls(Globals0({}), Prelude, 1)

InitLits ==
  /\ args = [c |-> TRUE, d |-> FALSE, o |-> FALSE]
  /\ pc = "parse"
  /\ r = 0
  /\ exit_status = 0
  /\ outfile = <<>>
  /\ stdout = <<>>
  /\ text = Prelude
  /\ used = {}
  /\ item_id = AfterPrelude.item_id
  /\ id_item = AfterPrelude.id_item
  /\ item_weight = AfterPrelude.item_weight
  /\ device_offload = AfterPrelude.device_offload
  /\ type_id = AfterPrelude.type_id
  /\ rule_id = AfterPrelude.rule_id
  /\ crush = AfterPrelude.crush
  /\ err = ""
  /\ cerr = <<>>
  /\ pool = NoPool
  /\ sel = NoSel
  /\ clients = NoClients

OneMore == pc = "parse" /\ text = Prelude

ParseDeviceLit ==
  /\ OneMore
  /\ \E i \in 0..MaxDeviceId, tag \in {"offload", "load"}, lit \in 0..LitRange :
       LET d == Device(i, FreshItem, tag, lit) IN Parse(parse_device(Cur, d), d)

ParseBucketLit ==
  /\ OneMore
  /\ \E lit \in 0..LitRange, p \in -1..MaxPos :
       LET d == Bucket("host", FreshItem, 0, "straw", <<[name |-> "a", w |-> lit, pos |-> p]>>)
       IN Parse(parse_bucket(Cur, d), d)

NextLits ==
  \/ ParseDeviceLit
  \/ ParseBucketLit
  \/ EndOfText

SpecLits == InitLits /\ [][NextLits]_vars

\* The text "type 1 host / device 0 a / device 1 b" has been read; the next
\* declaration is a bucket h of up to MaxItemLines items with weights and explicit
\* pos values up to MaxItemPos, the one after it a bucket p that lists h.
MaxItemLines == 3
MaxItemPos == 2
ItemWeightLits == {1, 300}
ItemsPrelude ==
  <<[k |-> "type", id |-> 1, name |-> "host"], Device(0, "a", "", 0), Device(1, "b", "", 0)>>

InitItems ==
  LET s == parse_decls(Globals0({}), ItemsPrelude, 1)
  IN /\ args = [c |-> TRUE, d |-> FALSE, o |-> FALSE]
     /\ pc = "parse"
     /\ r = 0
     /\ exit_status = 0
     /\ outfile = <<>>
     /\ stdout = <<>>
     /\ text = ItemsPrelude
     /\ used = {}
     /\ item_id = s.item_id
     /\ id_item = s.id_item
     /\ item_weight = s.item_weight
     /\ device_offload = s.device_offload
     /\ type_id = s.type_id
     /\ rule_id = s.rule_id
     /\ crush = s.crush
     /\ err = ""
     /\ cerr = <<>>
     /\ pool = NoPool
     /\ sel = NoSel
     /\ clients = NoClients

ParseBucketItems ==
  /\ pc = "parse" /\ text = ItemsPrelude
  /\ \E its \in SeqsUpTo({[name |-> n, w |-> w, pos |-> p] :
                            n \in {"a", "b"}, w \in ItemWeightLits \cup {NoLit},
                            p \in -1..MaxItemPos}, MaxItemLines) :
       LET d == Bucket("host", "h", 0, "straw", its)
       IN Parse(parse_bucket(Cur, d), d)

ParseBucketParent ==
  /\ pc = "parse" /\ Len(text) = Len(ItemsPrelude) + 1
  /\ \E w \in {300, NoLit} :
       LET d == Bucket("host", "p", 0, "straw", <<[name |-> "h", w |-> w, pos |-> -1]>>)
       IN Parse(parse_bucket(Cur, d), d)

NextItems ==
  \/ ParseBucketItems
  \/ ParseBucketParent
  \/ EndOfText

SpecItems == InitItems /\ [][NextItems]_vars

\* ------------------------------------------------------------------ claims
\* a compile run that ended with exit status 0
CompileExit0 == pc = "exit" /\ args.c /\ ~args.d /\ exit_status = 0
\* ... after parse_crush read the whole text
Compiled == CompileExit0 /\ r = 0
\* a compile run that ended, however
CompileEnded == pc = "exit" /\ args.c /\ ~args.d

\* C1 (as stated): decompiling the map of a successful compile and compiling the
\* emitted text succeeds and gives the same map, hence the same binary.
C1_RoundTrip ==
  Compiled =>
    LET again == parse_crush(decompile_crush(crush))
    IN again.err = "" /\ again.crush = crush /\ encode(again.crush) = encode(crush)

\* C2 (as stated): a compile run exits with 0 exactly when nothing failed: the file
\* was read and parsed (r = 0), no declaration was rejected, the -o file was written.
C2_ExitStatus ==
  CompileEnded =>
    (exit_status = 0 <=> (r = 0 /\ err = "" /\ (args.o => outfile # <<>>)))

\* C3 (as stated): when compiling with -o fails, parse errors included, nothing is
\* encoded and the output file is not written.
C3_NoOutputOnFailure ==
  (CompileEnded /\ args.o /\ (r # 0 \/ err # "")) => outfile = <<>>

\* C4 (as stated): no successful compile leaves a name declared twice in one
\* registry (items, types, rules).
Registry(d) ==
  IF d.k = "device" \/ d.k = "bucket" THEN "item" ELSE d.k
SameName(d1, d2) ==
  Registry(d1) = Registry(d2) /\ d1.name = d2.name /\ d1.name # ""
C4_NoDuplicateNames ==
  Compiled => \A i, j \in 1..Len(text) : i < j => ~SameName(text[i], text[j])

\* C5 (as stated): after a successful compile no two declared items carry the
\* same id.
C5_UniqueIds ==
  Compiled => \A n1, n2 \in DOMAIN item_id : n1 # n2 => item_id[n1] # item_id[n2]

\* the text so far was accepted: no declaration made the parser exit
Accepted == err = "" /\ (pc = "parse" \/ Compiled)

IsItemDecl(d) == d.k = "device" \/ d.k = "bucket"
ItemNamesBefore(i) == {text[j].name : j \in {j2 \in 1..i - 1 : IsItemDecl(text[j2])}}
TypeNamesBefore(i) == {text[j].name : j \in {j2 \in 1..i - 1 : text[j2].k = "type"}}

\* every name the i-th declaration refers to is declared earlier in the text
RefsDeclared(i) ==
  LET d == text[i]
  IN /\ d.k = "bucket" =>
          /\ d.tname \in TypeNamesBefore(i)
          /\ \A q \in 1..Len(d.items) : d.items[q].name \in ItemNamesBefore(i)
     /\ d.k = "rule" =>
          \A q \in 1..Len(d.steps) :
            /\ d.steps[q].op = "take" => d.steps[q].item \in ItemNamesBefore(i)
            /\ d.steps[q].op \notin {"take", "emit"} => d.steps[q].type \in TypeNamesBefore(i)

\* the bucket the i-th declaration added is the one stored under its id
StoredBucket(i) ==
  /\ text[i].k = "bucket"
  /\ ~\E j \in 1..i - 1 :
        text[j].k = "bucket" /\ item_id[text[j].name] = item_id[text[i].name]

\* each position 0..size-1 of that bucket holds the id of one of its item lines,
\* an item declared before the bucket
PositionsHoldDeclared(i) ==
  LET d == text[i]
      b == crush.buckets[item_id[d.name]]
  IN /\ DOMAIN b.items = 0..b.size - 1
     /\ \A p \in 0..b.size - 1 :
          \E q \in 1..Len(d.items) :
            /\ d.items[q].name \in ItemNamesBefore(i)
            /\ b.items[p] = item_id[d.items[q].name]

\* C6: a text with a bucket whose type or item is undeclared, or a rule whose take
\* item or choose type is undeclared, is not accepted; every position of an accepted
\* bucket holds the id of an item declared before it.
C6_ReferencesDeclared ==
  Accepted =>
    \A i \in 1..Len(text) :
      /\ RefsDeclared(i)
      /\ StoredBucket(i) => PositionsHoldDeclared(i)

C6_Witness ==
  /\ Compiled
  /\ \E i \in 1..Len(text) : text[i].k = "bucket" /\ Len(text[i].items) >= 1
  /\ \E i \in 1..Len(text) : text[i].k = "rule" /\ text[i].steps[1].op = "take"

\* C7 (as stated): after a successful compile no item id is a child more than
\* once, in two buckets or twice in one.
Children == {<<b, p>> \in (DOMAIN crush.buckets) \X (0..MaxItems + MaxPos) :
               p \in DOMAIN crush.buckets[b].items}
C7_Forest ==
  Compiled =>
    \A x, y \in Children :
      x # y => crush.buckets[x[1]].items[x[2]] # crush.buckets[y[1]].items[y[2]]

\* C8 (as stated): after a successful compile no bucket id is reachable from
\* itself by following bucket items.
BucketItems(b) ==
  IF Has(crush.buckets, b) THEN Range(crush.buckets[b].items) ELSE {}
RECURSIVE Below(_, _)
Below(S, n) ==
  IF n = 0 THEN S
  ELSE Below(S \cup UNION {BucketItems(b) : b \in S}, n - 1)
C8_Acyclic ==
  Compiled =>
    \A b \in DOMAIN crush.buckets :
      b \notin Below(BucketItems(b), Cardinality(DOMAIN crush.buckets))

\* a compiled text with an explicit bucket id declared twice and a bucket that
\* holds another bucket
C8_Witness ==
  /\ Compiled
  /\ \E i, j \in 1..Len(text) :
       /\ i < j /\ text[i].k = "bucket" /\ text[j].k = "bucket"
       /\ text[i].id # 0 /\ text[i].id = text[j].id
  /\ \E b \in DOMAIN crush.buckets : BucketItems(b) \cap DOMAIN crush.buckets # {}

\* C9 (as stated): an accepted device line has its offload (x, 1-x or 1) in [0,1];
\* after a successful compile every stored offload is in [0, 65536], 65536 for a
\* device line with down and 0 for a device line without a tag.
LegalOffload(d) == (d.tag = "offload" \/ d.tag = "load") => (0 <= d.val /\ d.val <= Denom)
C9_Offload ==
  /\ Accepted =>
       \A i \in 1..Len(text) : text[i].k = "device" => LegalOffload(text[i])
  /\ Compiled =>
       /\ \A i \in DOMAIN crush.offload : 0 <= crush.offload[i] /\ crush.offload[i] <= Unit
       /\ \A i \in 1..Len(text) :
            text[i].k = "device" =>
              /\ text[i].tag = "down" => get_device_offload(crush, text[i].id) = Unit
              /\ text[i].tag = "" => get_device_offload(crush, text[i].id) = 0

\* round(k/1000 * 65536) and floor(k/1000 * 65536), in integers
RoundFixed(lit) == (2 * lit * Unit + Denom) \div (2 * Denom)
FloorFixed(lit) == (lit * Unit) \div Denom

\* the decimals of the declaration read last are stored as Fixed says: the offload
\* of a device line in device_offload and, once compiled, in the map; each weight
\* of an item line at the item's position in the bucket
StoredAs(Fixed(_)) ==
  (Accepted /\ text # <<>>) =>
    LET d == text[Len(text)]
    IN /\ (d.k = "device" /\ d.tag = "offload") =>
            /\ device_offload[d.id] = Fixed(d.val)
            /\ Compiled => get_device_offload(crush, d.id) = Fixed(d.val)
       /\ d.k = "bucket" =>
            LET b == crush.buckets[item_id[d.name]]
            IN \A q \in 1..Len(d.items) :
                 d.items[q].w # NoLit =>
                   \E p \in DOMAIN b.items :
                     /\ b.items[p] = item_id[d.items[q].name]
                     /\ b.weights[p] = Fixed(d.items[q].w)

\* C10 (as stated): every weight and offload x of the text is stored as
\* round(x * 65536).
C10_Rounded == StoredAs(RoundFixed)

\* C10 (amended): every weight and offload x = k/1000 of the text, up to 4.000, is
\* stored as floor(x * 65536): the cast truncates.
C10_Truncated == StoredAs(FloorFixed)

C10_Witness ==
  /\ Compiled
  /\ text[Len(text)].k = "bucket"
  /\ \E b \in Range(crush.buckets) :
       \E p \in DOMAIN b.weights :
         /\ b.weights[p] > Unit
         /\ b.weights[p] = FloorFixed(text[Len(text)].items[1].w)
         /\ b.weights[p] # RoundFixed(text[Len(text)].items[1].w)

\* ------------------------------------------------------- kernel/msgpool.c
\* One ceph_msg_pool shared by MaxThreads kernel threads.  pool.lock is the
\* holder of pool->lock (0: free), pool.msgs the list pool->msgs, pool.wait the
\* tasks queued on pool->wait, pool.alloc the messages that ceph_msg_new has
\* returned and ceph_msg_kfree has not freed, pool.th[t] thread t: where it is
\* (pc), which function called __fill_msgpool (caller), the delta it passed to
\* ceph_msgpool_resv, the messages it holds (held), the reservation it has
\* outstanding (resv), what its call in progress has added to pool->min so far
\* (dmin), __fill_msgpool's return value (ret) and its task state.
MaxThreads == 3
MaxMin == 1
MaxHeld == 1
MaxResv == 1
ENOMEM == 12
Threads == 1..MaxThreads

Thread0 ==
  [pc |-> "unborn", caller |-> "", delta |-> 0, held |-> 0, resv |-> 0, ret |-> 0,
   dmin |-> 0, state |-> "TASK_RUNNING"]

\* ceph_msgpool_init up to its spin_lock: thread 1 is the one that calls it
msgpool_init(min) ==
  [lock |-> 0, num |-> 0, min |-> min, msgs |-> <<>>, alloc |-> 0, wait |-> {},
   th |-> [t \in Threads |->
             IF t = 1 THEN [Thread0 EXCEPT !.pc = "init_lock", !.caller = "init"]
             ELSE Thread0]]

spin_lock(p, t) == [p EXCEPT !.lock = t]
spin_unlock(p) == [p EXCEPT !.lock = 0]
list_add(p) == [p EXCEPT !.msgs = <<"msg">> \o @]
\* a list_del_init that leaves the message linked; C23 does not hold for it
list_del_init_linked(p) == p
list_del_init(p) == [p EXCEPT !.msgs = Tail(@)]
goto(p, t, to) == [p EXCEPT !.th[t].pc = to]

\* wake_up(&pool->wait): every queued task is made runnable and leaves the queue
wake_up(p) ==
  [p EXCEPT !.wait = {},
            !.th = [u \in Threads |->
                      IF u \in p.wait THEN [p.th[u] EXCEPT !.state = "TASK_RUNNING"]
                      ELSE p.th[u]]]

\* a fill without its second loop: C13 does not hold for it
over_target_never(p) == FALSE

\* __fill_msgpool, second loop: release while pool->num > pool->min
over_target(p) == p.num > p.min
RECURSIVE release_excess(_)
release_excess(p) ==
  IF over_target(p) /\ p.msgs # <<>>
  THEN release_excess([list_del_init(p) EXCEPT !.num = @ - 1, !.alloc = @ - 1])
  ELSE p

PoolStep(p) == pool' = p /\ UNCHANGED <<tool_vars, sel, clients>>
At(t, where) == pool.th[t].pc = where
InUse == \A t \in Threads : ~At(t, "unborn") /\ pool.th[t].caller # "destroy"

\* ceph_msgpool_init: spin_lock, then __fill_msgpool
InitLock(t) ==
  /\ At(t, "init_lock") /\ pool.lock = 0
  /\ PoolStep(goto(spin_lock(pool, t), t, "fill_top"))

\* __fill_msgpool: the test of the first loop; the lock is dropped to allocate
FillTop(t) ==
  /\ At(t, "fill_top")
  /\ IF pool.num < pool.min
     THEN PoolStep(goto(spin_unlock(pool), t, "fill_alloc"))
     ELSE PoolStep(goto(pool, t, "fill_release"))

\* __fill_msgpool: ceph_msg_new returned, the lock is taken again
FillAlloc(t) ==
  /\ At(t, "fill_alloc") /\ pool.lock = 0
  /\ \E is_err \in BOOLEAN :
       IF is_err
       THEN PoolStep([goto(spin_lock(pool, t), t, "fill_return") EXCEPT !.th[t].ret = -ENOMEM])
       ELSE PoolStep([goto(list_add(spin_lock(pool, t)), t, "fill_top") EXCEPT
                        !.num = @ + 1, !.alloc = @ + 1])

\* __fill_msgpool: the second loop and return 0
FillRelease(t) ==
  /\ At(t, "fill_release")
  /\ PoolStep([goto(release_excess(pool), t, "fill_return") EXCEPT !.th[t].ret = 0])

\* the caller's spin_unlock and return; once ceph_msgpool_init has returned 0
\* the other threads may use the pool
FillReturn(t) ==
  /\ At(t, "fill_return")
  /\ LET p == goto(spin_unlock(pool), t, "idle")
     IN IF pool.th[t].caller = "init" /\ pool.th[t].ret = 0
        THEN PoolStep([p EXCEPT !.th = [u \in Threads |->
                                          IF u = t THEN [p.th[u] EXCEPT !.caller = ""]
                                          ELSE [p.th[u] EXCEPT !.pc = "idle"]]])
        ELSE IF pool.th[t].caller = "init" \/ pool.th[t].caller = "destroy"
        THEN PoolStep(p)
        ELSE PoolStep([p EXCEPT !.th[t].caller = "", !.th[t].dmin = 0])

\* a thread calls ceph_msgpool_get, ceph_msgpool_put (with a message it got),
\* ceph_msgpool_resv (+1, or -1 to give back what it reserved) or, when nobody
\* else is inside the pool or holds a reservation, ceph_msgpool_destroy
CallGet(t) ==
  /\ At(t, "idle") /\ InUse /\ pool.th[t].held < MaxHeld
  /\ PoolStep(goto(pool, t, "get_lock"))
CallPut(t) ==
  /\ At(t, "idle") /\ pool.th[t].held > 0
  /\ PoolStep(goto(pool, t, "put_lock"))
CallResv(t) ==
  /\ At(t, "idle") /\ InUse
  /\ \E delta \in {-1, 1} :
       /\ pool.th[t].resv + delta \in 0..MaxResv
       /\ PoolStep([goto(pool, t, "resv_lock") EXCEPT !.th[t].resv = @ + delta,
                                                      !.th[t].delta = delta,
                                                      !.th[t].caller = "resv"])
CallDestroy(t) ==
  /\ InUse
  /\ \A u \in Threads : At(u, "idle") /\ pool.th[u].resv = 0
  /\ PoolStep([goto(pool, t, "destroy_lock") EXCEPT !.th[t].caller = "destroy"])

\* ceph_msgpool_resv: spin_lock, pool->min += delta, then __fill_msgpool
ResvLock(t) ==
  /\ At(t, "resv_lock") /\ pool.lock = 0
  /\ PoolStep([goto(spin_lock(pool, t), t, "fill_top") EXCEPT
                 !.min = @ + pool.th[t].delta, !.th[t].dmin = pool.th[t].delta])

\* ceph_msgpool_destroy: spin_lock, pool->min = 0, then __fill_msgpool
DestroyLock(t) ==
  /\ At(t, "destroy_lock") /\ pool.lock = 0
  /\ PoolStep([goto(spin_lock(pool, t), t, "fill_top") EXCEPT !.min = 0])

\* ceph_msgpool_get: one turn of the loop under the lock: take the first message
\* and return it, or unlock and go on to wait
GetLock(t) ==
  /\ At(t, "get_lock") /\ pool.lock = 0
  /\ IF pool.num # 0
     THEN PoolStep([goto(list_del_init(pool), t, "idle") EXCEPT !.num = @ - 1,
                                                              !.th[t].held = @ + 1])
     ELSE PoolStep(goto(pool, t, "get_prepare"))

\* init_wait, prepare_to_wait(&pool->wait, &wait, TASK_UNINTERRUPTIBLE)
GetPrepare(t) ==
  /\ At(t, "get_prepare")
  /\ PoolStep([goto(pool, t, "get_schedule") EXCEPT !.wait = @ \cup {t},
                                                   !.th[t].state = "TASK_UNINTERRUPTIBLE"])

\* schedule() returns once the task is runnable
GetSchedule(t) ==
  /\ At(t, "get_schedule") /\ pool.th[t].state = "TASK_RUNNING"
  /\ PoolStep(goto(pool, t, "get_finish"))

\* finish_wait, and around the loop
GetFinish(t) ==
  /\ At(t, "get_finish")
  /\ PoolStep([goto(pool, t, "get_lock") EXCEPT !.wait = @ \ {t},
                                               !.th[t].state = "TASK_RUNNING"])

\* ceph_msgpool_put under the lock: reclaim the message if the pool is short,
\* else drop it
PutLock(t) ==
  /\ At(t, "put_lock") /\ pool.lock = 0
  /\ IF pool.num < pool.min
     THEN PoolStep([goto(list_add(pool), t, "put_wake") EXCEPT !.num = @ + 1,
                                                             !.th[t].held = @ - 1])
     ELSE PoolStep([goto(pool, t, "idle") EXCEPT !.th[t].held = @ - 1, !.alloc = @ - 1])

\* ceph_msgpool_put: wake_up(&pool->wait) after the unlock
PutWake(t) ==
  /\ At(t, "put_wake")
  /\ PoolStep(goto(wake_up(pool), t, "idle"))

InitPool ==
  /\ args = [c |-> FALSE, d |-> FALSE, o |-> FALSE]
  /\ pc = "start"
  /\ r = 0
  /\ exit_status = 0
  /\ outfile = <<>>
  /\ stdout = <<>>
  /\ text = <<>>
  /\ used = {}
  /\ item_id = EmptyMap
  /\ id_item = EmptyMap
  /\ item_weight = EmptyMap
  /\ device_offload = EmptyMap
  /\ type_id = EmptyMap
  /\ rule_id = EmptyMap
  /\ crush = create
  /\ err = ""
  /\ cerr = <<>>
  /\ sel = NoSel
  /\ clients = NoClients
  /\ \E min \in 0..MaxMin : pool = msgpool_init(min)

\* the steps of a thread that is inside a pool function
Running(t) ==
  \/ InitLock(t) \/ FillTop(t) \/ FillAlloc(t) \/ FillRelease(t) \/ FillReturn(t)
  \/ ResvLock(t) \/ DestroyLock(t)
  \/ GetLock(t) \/ GetPrepare(t) \/ GetSchedule(t) \/ GetFinish(t)
  \/ PutLock(t) \/ PutWake(t)

NextPool ==
  \/ \E t \in Threads : InitLock(t)
  \/ \E t \in Threads : FillTop(t)
  \/ \E t \in Threads : FillAlloc(t)
  \/ \E t \in Threads : FillRelease(t)
  \/ \E t \in Threads : FillReturn(t)
  \/ \E t \in Threads : CallGet(t)
  \/ \E t \in Threads : CallPut(t)
  \/ \E t \in Threads : CallResv(t)
  \/ \E t \in Threads : CallDestroy(t)
  \/ \E t \in Threads : ResvLock(t)
  \/ \E t \in Threads : DestroyLock(t)
  \/ \E t \in Threads : GetLock(t)
  \/ \E t \in Threads : GetPrepare(t)
  \/ \E t \in Threads : GetSchedule(t)
  \/ \E t \in Threads : GetFinish(t)
  \/ \E t \in Threads : PutLock(t)
  \/ \E t \in Threads : PutWake(t)

\* a thread that is inside a pool function and can take a step does take it; no
\* thread is obliged to call the pool again
SpecPool == InitPool /\ [][NextPool]_vars /\ \A t \in Threads : WF_vars(Running(t))

\* ------------------------------------------------ the selector (section 4.4)
\* map_pg as section 4.4 describes it: work holds the current candidates, result
\* the accumulated output; a choose step makes, for every entry of work, N outputs
\* of the requested type.  pick is any function of (bucket, x, r): an attempt may
\* descend to any child.  sel.outputs holds, per accepted attempt, the item that
\* was picked and the item that is output (the device below it for chooseleaf);
\* an attempt is rejected when either is already among them.
MaxTries == 4
MaxLocalTries == 2
MaxResult == 2
None == 2147483647

\* the texts whose maps are selected from: two hosts with three devices, one down
\* and one half offloaded; two hosts that list the same device; every device
\* down; a host without items
SelTexts ==
  LET it(n) == [name |-> n, w |-> NoLit, pos |-> -1]
      types == <<[k |-> "type", id |-> 1, name |-> "host"],
                 [k |-> "type", id |-> 2, name |-> "root"]>>
      root == Bucket("root", "r", 0, "straw", <<it("h1"), it("h2")>>)
  IN {types \o <<Device(0, "a", "", 0), Device(1, "b", "down", 0), Device(2, "c", "offload", 300),
                  Bucket("host", "h1", 0, "straw", <<it("a"), it("b")>>),
                  Bucket("host", "h2", 0, "uniform", <<it("c")>>), root>>,
      types \o <<Device(0, "a", "", 0),
                  Bucket("host", "h1", 0, "straw", <<it("a")>>),
                  Bucket("host", "h2", 0, "straw", <<it("a")>>), root>>,
      types \o <<Device(0, "a", "down", 0), Device(1, "b", "down", 0),
                  Bucket("host", "h1", 0, "tree", <<it("a")>>),
                  Bucket("host", "h2", 0, "straw", <<it("b")>>), root>>,
      types \o <<Device(0, "a", "", 0),
                  Bucket("host", "h1", 0, "straw", <<it("a")>>),
                  Bucket("host", "h2", 0, "straw", <<>>), root>>}

\* the rules: take r, one or two choose steps, emit
SelRules ==
  LET st(op, mode, n, type) == [op |-> op, mode |-> mode, n |-> n, type |-> type]
  IN {<<[op |-> "take", item |-> "r"]>> \o mid \o <<[op |-> "emit"]>> :
        mid \in {<<st("choose", m, n, 0)>> : m \in {"firstn", "indep"}, n \in {0, -1}}
           \cup {<<st("chooseleaf", m, 0, 1)>> : m \in {"firstn", "indep"}}
           \cup {<<st("choose", m, 0, 1), st("choose", m, 1, 0)>> :
                   m \in {"firstn", "indep"}}}

item_type(c, id) == IF id >= 0 THEN 0 ELSE c.buckets[id].type
choose_n(n) == IF n > 0 THEN n ELSE MaxResult + n

\* where the descent from cur may stop: "while current is a bucket whose type >
\* target_type: current = pick(current, ...)"; an empty bucket picks nothing
RECURSIVE descend(_, _, _)
descend(c, cur, type) ==
  IF cur = None \/ cur >= 0 \/ item_type(c, cur) <= type THEN {cur}
  ELSE IF c.buckets[cur].size = 0 THEN {None}
  ELSE UNION {descend(c, c.buckets[cur].items[p], type) : p \in DOMAIN c.buckets[cur].items}

\* whether a device may be rejected for its offload: never at 0, always at 65536
is_out(c, dev) ==
  IF get_device_offload(c, dev) = 0 THEN {FALSE}
  ELSE IF get_device_offload(c, dev) >= Unit THEN {TRUE}
  ELSE BOOLEAN

\* a selector without a retry budget; C15 does not hold for it
budget_unbounded(s) == TRUE
budget_left(s) == s.tries < MaxTries
entry_done(s) ==
  \/ s.work[s.entry] = None
  \/ Len(s.outputs) = choose_n(Head(s.steps).n)
  \/ ~budget_left(s)

SelStep(s) == sel' = s /\ UNCHANGED <<tool_vars, pool, clients>>
Choosing(s) ==
  /\ ~s.done /\ s.steps # <<>>
  /\ Head(s.steps).op \in {"choose", "chooseleaf"}

\* take(item) sets work = [item]
SelTake ==
  /\ ~sel.done /\ sel.steps # <<>> /\ Head(sel.steps).op = "take"
  /\ SelStep([sel EXCEPT !.work = <<lookup(sel.item_id, Head(sel.steps).item)>>,
                         !.steps = Tail(@)])

\* one attempt of the production loop for the entry sel.work[sel.entry]
SelAttempt ==
  /\ Choosing(sel) /\ sel.entry <= Len(sel.work) /\ ~entry_done(sel)
  /\ LET st == Head(sel.steps)
         tried == [sel EXCEPT !.tries = @ + 1]
         reject == IF st.mode = "firstn" \/ sel.ltries + 1 < MaxLocalTries
                   THEN [tried EXCEPT !.ltries = @ + 1]
                   ELSE [tried EXCEPT !.ltries = 0, !.outputs = Append(@, <<None, None>>)]
         already_in(cur) ==
           \E q \in 1..Len(sel.outputs) : cur \in {sel.outputs[q][1], sel.outputs[q][2]}
         accept(cur, out) == [tried EXCEPT !.ltries = 0, !.outputs = Append(@, <<cur, out>>)]
     IN \E cur \in descend(sel.c, sel.work[sel.entry], st.type) :
          IF cur = None \/ item_type(sel.c, cur) # st.type THEN SelStep(reject)
          ELSE IF already_in(cur) THEN SelStep(reject)
          ELSE IF cur >= 0
          THEN \E out \in is_out(sel.c, cur) :
                 IF out THEN SelStep(reject) ELSE SelStep(accept(cur, cur))
          ELSE IF st.op = "chooseleaf"
          THEN \E leaf \in descend(sel.c, cur, 0) :
                 IF leaf = None \/ leaf < 0 \/ already_in(leaf)
                 THEN SelStep(reject)
                 ELSE \E out \in is_out(sel.c, leaf) :
                        IF out THEN SelStep(reject) ELSE SelStep(accept(cur, leaf))
          ELSE SelStep(accept(cur, cur))

\* the entry has its N outputs or the budget is used up: its outputs (for indep,
\* with a gap in every slot left) are concatenated; after the last entry they
\* become work and the step is over
SelAdvance ==
  /\ Choosing(sel)
  /\ IF sel.entry > Len(sel.work) THEN TRUE ELSE entry_done(sel)
  /\ LET st == Head(sel.steps)
         outs == [q \in 1..Len(sel.outputs) |-> sel.outputs[q][2]]
         gaps == IF st.mode = "indep" /\ sel.work[sel.entry] # None
                 THEN [q \in 1..choose_n(st.n) - Len(outs) |-> None]
                 ELSE <<>>
     IN IF sel.entry > Len(sel.work)
        THEN SelStep([sel EXCEPT !.work = sel.next, !.next = <<>>, !.entry = 1,
                                 !.steps = Tail(@)])
        ELSE SelStep([sel EXCEPT !.next = @ \o outs \o gaps, !.entry = @ + 1,
                                 !.outputs = <<>>, !.ltries = 0])

\* emit drains work into result and clears work
SelEmit ==
  /\ ~sel.done /\ sel.steps # <<>> /\ Head(sel.steps).op = "emit"
  /\ SelStep([sel EXCEPT !.result = @ \o sel.work, !.work = <<>>, !.steps = Tail(@),
                         !.done = (Tail(sel.steps) = <<>>)])

InitSel ==
  /\ args = [c |-> FALSE, d |-> FALSE, o |-> FALSE]
  /\ pc = "start"
  /\ r = 0
  /\ exit_status = 0
  /\ outfile = <<>>
  /\ stdout = <<>>
  /\ text = <<>>
  /\ used = {}
  /\ item_id = EmptyMap
  /\ id_item = EmptyMap
  /\ item_weight = EmptyMap
  /\ device_offload = EmptyMap
  /\ type_id = EmptyMap
  /\ rule_id = EmptyMap
  /\ crush = create
  /\ err = ""
  /\ cerr = <<>>
  /\ pool = NoPool
  /\ \E tx \in SelTexts, rule \in SelRules :
       sel = [c |-> parse_crush(tx).crush, item_id |-> parse_crush(tx).item_id,
              steps |-> rule, work |-> <<>>, entry |-> 1, outputs |-> <<>>, next |-> <<>>,
              tries |-> 0, ltries |-> 0, result |-> <<>>, done |-> FALSE]
  /\ clients = NoClients

NextSel ==
  \/ SelTake
  \/ SelAttempt
  \/ SelAdvance
  \/ SelEmit

SpecSel == InitSel /\ [][NextSel]_vars /\ WF_vars(NextSel)

\* C11 (as stated): the message that reports a failed compile, a parse error or a
\* rejected declaration, carries the input file name and a line number of the text.
CompileFailed == r = 1 \/ err # ""
C11_LineQualified ==
  (CompileEnded /\ CompileFailed) =>
    /\ cerr # <<>>
    /\ cerr[1].file = infn
    /\ cerr[1].line \in 1..MaxLines

\* C12 (as stated): no getter stays asleep in schedule() for ever while the pool
\* holds a message: time and again, a getter that waits is runnable or the pool
\* is empty.
Asleep(t) == At(t, "get_schedule") /\ pool.th[t].state = "TASK_UNINTERRUPTIBLE"
C12_GetterProgress ==
  \A t \in Threads : []<>(~(Asleep(t) /\ pool.num > 0))

\* C13: when the caller of __fill_msgpool releases the lock after a return of 0,
\* pool->num == pool->min and the list holds pool->num messages; after
\* ceph_msgpool_destroy both are 0.
C13_MeetsTarget ==
  \A t \in Threads :
    (At(t, "fill_return") /\ pool.th[t].ret = 0) =>
      /\ pool.lock = t
      /\ pool.num = pool.min
      /\ Len(pool.msgs) = pool.num
      /\ pool.th[t].caller = "destroy" => (pool.num = 0 /\ pool.msgs = <<>>)

\* ceph_msgpool_resv is about to unlock after a fill that ran while another
\* thread was inside the pool and that ended with a pool that is not empty
C13_Witness ==
  \E t, u \in Threads :
    /\ t # u
    /\ At(t, "fill_return") /\ pool.th[t].ret = 0 /\ pool.th[t].caller = "resv"
    /\ pool.num = pool.min /\ pool.num > 0
    /\ pool.th[u].held > 0 /\ ~At(u, "idle")

\* C14 (as stated): the devices one emit drains are pairwise distinct.
C14_Distinct ==
  sel.done =>
    \A i, j \in 1..Len(sel.result) :
      (i < j /\ sel.result[i] # None) => sel.result[i] # sel.result[j]

C16_Modes ==
  /\ (args.c = args.d) =>
        /\ pc \in {"start", "exit"}
        /\ pc = "exit" => exit_status = 1
        /\ text = <<>> /\ crush = create /\ outfile = <<>> /\ stdout = <<>>
  /\ ~args.o => outfile = <<>>
  /\ (args.d /\ ~args.c /\ ~args.o /\ pc = "exit" /\ exit_status = 0) =>
        stdout = <<decompile_crush(crush)>>
  /\ (args.c /\ ~args.d) => stdout = <<>>

\* crushtool -c map.txt -d map -o out has ended in usage()
C16_Witness ==
  /\ args.c /\ args.d /\ args.o
  /\ pc = "exit" /\ exit_status = 1 /\ outfile = <<>>

\* C18: after a successful compile, a bucket declared without an id line has the
\* negative id closest to -1 that is neither an explicit id of the text nor the
\* id of an earlier bucket, and no other bucket has that id.
C18_AutoId ==
  Compiled =>
    LET bs == {i \in 1..Len(text) : text[i].k = "bucket"}
        id(i) == item_id[text[i].name]
    IN \A i \in bs :
         text[i].id = 0 =>
           LET taken == find_used_bucket_ids(text) \cup {id(j) : j \in {j2 \in bs : j2 < i}}
           IN /\ id(i) < 0 /\ id(i) \notin taken
              /\ \A k \in id(i) + 1..-1 : k \in taken
              /\ \A j \in bs \ {i} : id(j) # id(i)

\* a bucket without an id line was given -2 because a later bucket asks for -1
C18_Witness ==
  /\ Compiled
  /\ \E i, j \in 1..Len(text) :
       /\ i < j /\ text[i].k = "bucket" /\ text[j].k = "bucket"
       /\ text[i].id = 0 /\ text[j].id = -1
       /\ item_id[text[i].name] = -2

\* the sum of the weights a bucket stores for its items
RECURSIVE SumWeights(_, _)
SumWeights(b, n) == IF n = 0 THEN 0 ELSE b.weights[n - 1] + SumWeights(b, n - 1)

\* C17 (as stated): the weight a parent stores for a bucket it lists without a
\* weight is the sum of the weights that bucket stores for its own items.
C17_BucketWeight ==
  \A j \in 1..Len(text) :
    (/\ j < Len(text) \/ err = ""
     /\ text[j].k = "bucket" /\ text[j].name = "p"
     /\ text[j].items[1].w = NoLit)
    => LET h == crush.buckets[item_id["h"]]
       IN crush.buckets[item_id["p"]].weights[0] = SumWeights(h, h.size)

\* the bucket h of the text, once it is read, and whether it was accepted
HasH == Len(text) > Len(ItemsPrelude)
LinesH == text[Len(ItemsPrelude) + 1].items
AcceptedH == HasH /\ (Len(text) > Len(ItemsPrelude) + 1 \/ err = "")
ExplicitPos(its) == {its[q].pos : q \in {q2 \in 1..Len(its) : its[q2].pos >= 0}}
DistinctPos(its) ==
  \A q1, q2 \in 1..Len(its) : (q1 < q2 /\ its[q1].pos >= 0) => its[q1].pos # its[q2].pos

\* where the q-th item line belongs: at its explicit pos, or, being the k-th line
\* without one, at the k-th index that no explicit pos claims
ExpectedPos(its, q) ==
  IF its[q].pos >= 0 THEN its[q].pos
  ELSE LET k == Cardinality({q2 \in 1..q : its[q2].pos < 0})
           free(p) == p \notin ExplicitPos(its)
       IN CHOOSE p \in 0..Len(its) + MaxItemPos + 1 :
            free(p) /\ Cardinality({p2 \in 0..p - 1 : free(p2)}) = k - 1

\* C19: a bucket with two items at the same explicit pos does not compile; in a
\* compiled bucket the items are at distinct indices below size, each explicit
\* pos is honoured and the other items fill the lowest free indices in order.
C19_Positions ==
  HasH =>
    /\ ~DistinctPos(LinesH) => ~AcceptedH
    /\ AcceptedH =>
         LET h == crush.buckets[item_id["h"]]
         IN \A q \in 1..Len(LinesH) :
              /\ ExpectedPos(LinesH, q) \in 0..h.size - 1
              /\ h.items[ExpectedPos(LinesH, q)] = item_id[LinesH[q].name]
              /\ h.weights[ExpectedPos(LinesH, q)] =
                   IF LinesH[q].w = NoLit THEN Unit ELSE ToFixed(float_node(LinesH[q].w))
              /\ \A q2 \in 1..Len(LinesH) :
                   q # q2 => ExpectedPos(LinesH, q) # ExpectedPos(LinesH, q2)

\* "item a / item b pos 0 / item a weight 0.001" compiled to b, a, a
C19_Witness ==
  /\ AcceptedH
  /\ Len(LinesH) = 3 /\ LinesH[1].pos = -1 /\ LinesH[2].pos = 0 /\ LinesH[3].pos = -1
  /\ LinesH[1].name = "a" /\ LinesH[2].name = "b" /\ LinesH[3].w = 1
  /\ crush.buckets[item_id["h"]].items = (0 :> 1 @@ 1 :> 0 @@ 2 :> 0)

\* C20 (as stated): a bucket whose explicit pos values are distinct compiles, and
\* its size is the larger of its number of item lines and its highest pos + 1.
C20_Size ==
  (HasH /\ DistinctPos(LinesH)) =>
    /\ AcceptedH
    /\ crush.buckets[item_id["h"]].size =
         Max(Len(LinesH), IF ExplicitPos(LinesH) = {} THEN 0
                          ELSE SetMax(ExplicitPos(LinesH)) + 1)

\* ------------------------------------------------ kernel/super.c: clients
\* ceph_num_clients (num), the shared workqueues (wq is "up" between
\* ceph_workqueue_init and ceph_workqueue_shutdown; misordered is set by an init
\* of workqueues that are up or a shutdown of workqueues that are down), and the
\* threads that mount and unmount.  A thread holds the client cl it is creating
\* or has created: which of wb_wq, trunc_wq and msgr it has, and got, what the
\* call has added to ceph_num_clients.  ret is what its last ceph_create_client
\* returned: "" (none yet), "cl" or "err".
MaxMounts == 2
Mounts == 1..MaxMounts

ClStep(c) == clients' = c /\ UNCHANGED <<tool_vars, pool, sel>>
Mount(t, where) == clients.th[t].pc = where

\* ceph_create_client: kzalloc; ERR_PTR(-ENOMEM) if it fails
CreateClient(t) ==
  /\ Mount(t, "idle")
  /\ \E ok \in BOOLEAN :
       LET fresh == [wb_wq |-> FALSE, trunc_wq |-> FALSE, msgr |-> FALSE]
       IN IF ok
          THEN ClStep([clients EXCEPT !.th[t] = [pc |-> "get_counter", in |-> "create",
                                                 cl |-> fresh, got |-> 0, ret |-> ""]])
          ELSE ClStep([clients EXCEPT !.th[t] = [pc |-> "idle", in |-> "", cl |-> fresh,
                                                 got |-> 0, ret |-> "err"]])

\* get_client_counter: atomic_add_return(1, &ceph_num_clients) == 1
GetClientCounter(t) ==
  /\ Mount(t, "get_counter")
  /\ ClStep([clients EXCEPT !.num = @ + 1, !.th[t].got = @ + 1,
                            !.th[t].pc = IF clients.num + 1 = 1 THEN "wq_init" ELSE "wb_wq"])

\* ... then ceph_workqueue_init()
WorkqueueInit(t) ==
  /\ Mount(t, "wq_init")
  /\ ClStep([clients EXCEPT !.wq = "up", !.misordered = @ \/ clients.wq = "up",
                            !.th[t].pc = "wb_wq"])

\* the four steps of ceph_create_client that may fail: create_workqueue twice,
\* ceph_messenger_create, ceph_monc_init; each goes to fail when it fails, and
\* the last returns cl
CreateStep(t) ==
  /\ clients.th[t].pc \in {"wb_wq", "trunc_wq", "msgr", "monc"}
  /\ \E ok \in BOOLEAN :
       LET at == clients.th[t].pc
       IN IF ~ok
          THEN ClStep([clients EXCEPT !.th[t].pc = "fail"])
          ELSE IF at = "wb_wq"
          THEN ClStep([clients EXCEPT !.th[t].cl.wb_wq = TRUE, !.th[t].pc = "trunc_wq"])
          ELSE IF at = "trunc_wq"
          THEN ClStep([clients EXCEPT !.th[t].cl.trunc_wq = TRUE, !.th[t].pc = "msgr"])
          ELSE IF at = "msgr"
          THEN ClStep([clients EXCEPT !.th[t].cl.msgr = TRUE, !.th[t].pc = "monc"])
          ELSE ClStep([clients EXCEPT !.th[t].pc = "mounted", !.th[t].ret = "cl"])

\* ceph_destroy_client up to put_client_counter: the workqueues the client has
\* and its messenger are destroyed
DestroyClient(t) ==
  /\ Mount(t, "mounted")
  /\ ClStep([clients EXCEPT
        !.th[t].cl = [wb_wq |-> FALSE, trunc_wq |-> FALSE, msgr |-> FALSE],
        !.th[t].in = "destroy", !.th[t].pc = "put_counter"])

\* fail: of ceph_create_client starts with put_client_counter
CreateFail(t) ==
  /\ Mount(t, "fail")
  /\ ClStep([clients EXCEPT !.th[t].pc = "put_counter"])

\* put_client_counter: atomic_dec_and_test(&ceph_num_clients)
PutClientCounter(t) ==
  /\ Mount(t, "put_counter")
  /\ ClStep([clients EXCEPT !.num = @ - 1, !.th[t].got = @ - 1,
                            !.th[t].pc = IF clients.num - 1 = 0 THEN "wq_shutdown" ELSE "kfree"])

\* ... then ceph_workqueue_shutdown()
WorkqueueShutdown(t) ==
  /\ Mount(t, "wq_shutdown")
  /\ ClStep([clients EXCEPT !.wq = "down", !.misordered = @ \/ clients.wq = "down",
                            !.th[t].pc = "kfree"])

\* kfree(cl); ceph_create_client returns ERR_PTR(err), ceph_destroy_client returns
Kfree(t) ==
  /\ Mount(t, "kfree")
  /\ ClStep([clients EXCEPT
        !.th[t].pc = "idle",
        !.th[t].ret = IF clients.th[t].in = "create" THEN "err" ELSE ""])

InitClients ==
  /\ args = [c |-> FALSE, d |-> FALSE, o |-> FALSE]
  /\ pc = "start"
  /\ r = 0
  /\ exit_status = 0
  /\ outfile = <<>>
  /\ stdout = <<>>
  /\ text = <<>>
  /\ used = {}
  /\ item_id = EmptyMap
  /\ id_item = EmptyMap
  /\ item_weight = EmptyMap
  /\ device_offload = EmptyMap
  /\ type_id = EmptyMap
  /\ rule_id = EmptyMap
  /\ crush = create
  /\ err = ""
  /\ cerr = <<>>
  /\ pool = NoPool
  /\ sel = NoSel
  /\ clients = [NoClients EXCEPT
                  !.th = [t \in Mounts |->
                            [pc |-> "idle", in |-> "", got |-> 0, ret |-> "",
                             cl |-> [wb_wq |-> FALSE, trunc_wq |-> FALSE, msgr |-> FALSE]]]]

NextClients ==
  \/ \E t \in Mounts : CreateClient(t)
  \/ \E t \in Mounts : GetClientCounter(t)
  \/ \E t \in Mounts : WorkqueueInit(t)
  \/ \E t \in Mounts : CreateStep(t)
  \/ \E t \in Mounts : DestroyClient(t)
  \/ \E t \in Mounts : CreateFail(t)
  \/ \E t \in Mounts : PutClientCounter(t)
  \/ \E t \in Mounts : WorkqueueShutdown(t)
  \/ \E t \in Mounts : Kfree(t)

SpecClients == InitClients /\ [][NextClients]_vars

\* C22 (as stated): while a client whose create has returned exists the
\* workqueues are up; init and shutdown alternate, starting with init; when no
\* thread is inside get_client_counter or put_client_counter, the workqueues
\* are down exactly when ceph_num_clients is 0.
C22_SharedWorkqueues ==
  /\ \A t \in Mounts : Mount(t, "mounted") => clients.wq = "up"
  /\ ~clients.misordered
  /\ (\A t \in Mounts : ~Mount(t, "wq_init") /\ ~Mount(t, "wq_shutdown"))
       => (clients.wq = "down" <=> clients.num = 0)

\* C25 (as stated): a ceph_create_client that returned an error has released
\* what it acquired: its count in ceph_num_clients, its workqueues, its messenger.
C25_FailureCleanup ==
  \A t \in Mounts :
    clients.th[t].ret = "err" =>
      /\ clients.th[t].got = 0
      /\ ~clients.th[t].cl.wb_wq /\ ~clients.th[t].cl.trunc_wq /\ ~clients.th[t].cl.msgr

\* the device ids the text declares
DeclaredDevices == {text[i].id : i \in {j \in 1..Len(text) : text[j].k = "device"}}

\* C21: after a successful compile max_devices is 1 + the largest declared device
\* id, 0 without devices, hence above every declared id; no step of a compile
\* decreases it.
C21_MaxDevices ==
  /\ [](Compiled =>
          /\ crush.max_devices =
               IF DeclaredDevices = {} THEN 0 ELSE SetMax(DeclaredDevices) + 1
          /\ \A id \in DeclaredDevices : id < crush.max_devices)
  /\ [][(args.c /\ ~args.d) => crush'.max_devices >= crush.max_devices]_vars

\* "device 1 .." came before "device 0 .." and max_devices is 2
C21_Witness ==
  /\ Compiled /\ crush.max_devices = 2
  /\ \E i, j \in 1..Len(text) :
       /\ i < j /\ text[i].k = "device" /\ text[j].k = "device"
       /\ text[i].id = 1 /\ text[j].id = 0

\* the messages the threads 1..n hold
RECURSIVE Held(_)
Held(n) == IF n = 0 THEN 0 ELSE pool.th[n].held + Held(n - 1)

\* C23: pool->num is the length of pool->msgs; every message that is allocated
\* and not freed is either on the list or held by one thread, never both; with
\* the lock free pool->num <= pool->min; ceph_msgpool_put links the message iff
\* pool->num < pool->min and frees it otherwise.
C23_PoolInvariants ==
  /\ [](pool.th # <<>> =>
          /\ pool.num = Len(pool.msgs) /\ pool.num >= 0
          /\ pool.alloc = Len(pool.msgs) + Held(MaxThreads)
          /\ pool.lock = 0 => pool.num <= pool.min)
  /\ [][\A t \in DOMAIN pool.th :
          (pool.th[t].pc = "put_lock" /\ pool'.th[t].pc # "put_lock") =>
            IF pool.num < pool.min
            THEN /\ Len(pool'.msgs) = Len(pool.msgs) + 1 /\ pool'.num = pool.num + 1
                 /\ pool'.alloc = pool.alloc
            ELSE /\ pool'.msgs = pool.msgs /\ pool'.num = pool.num
                 /\ pool'.alloc = pool.alloc - 1]_vars

\* a put has reclaimed its message while another thread holds one
C23_Witness ==
  /\ pool.th # <<>>
  /\ \E t, u \in Threads : At(t, "put_wake") /\ pool.th[u].held > 0 /\ pool.num = pool.min

\* C24 (as stated): when ceph_msgpool_resv returns an error, the call has left
\* pool->min as it found it: what it has added to pool->min is 0.
C24_ResvFailure ==
  pool.th # <<>> =>
    \A t \in Threads :
      (At(t, "fill_return") /\ pool.th[t].caller = "resv" /\ pool.th[t].ret < 0) =>
        pool.th[t].dmin = 0

====
